---- MODULE Spec2Model ----
(***************************************************************************)
(* A letter trie (BaseLetterTrie, src/src/base_letter_trie.rs).            *)
(*                                                                         *)
(* Nodes live in a heap: a function from node addresses to Node records.   *)
(* A ChildLink (Rc<RefCell<Node>>) and a ParentLink (Weak<RefCell<Node>>)  *)
(* are both addresses; a node is dropped when no ChildLink holds it.       *)
(* A string is a sequence of characters, a character a one-letter string.  *)
(* Option<T> is a sequence: <<>> is None and <<x>> is Some(x).             *)
(***************************************************************************)
EXTENDS Integers, Sequences, FiniteSets, TLC

VARIABLES
    heap,              \* address -> Node, every node that is alive
    root,              \* BaseLetterTrie.root
    debug_assertions,  \* whether the build compiles debug_assert! in
    panicked,          \* a debug_assert! failed: the thread has unwound
    last,              \* the call made last, and what it found when it was made
    inserted,          \* history: the words handed to the insertions so far
    pc,                \* where the thread that loads the trie is
    method,            \* the parallel loader that runs
    lines,             \* the words the loader read, in the order of the file
    workers,           \* the threads the loader spawned, in the order it did
    channel,           \* mpsc::channel: the tries sent and not received yet
    thread_count,      \* the loader's local of that name
    received_index,    \* the index of the receive loop
    print_call         \* print_prefixes as called last: its argument, what it
                       \* printed, and whether its counter went below zero

loader == <<pc, method, lines, workers, channel, thread_count, received_index>>

vars == <<heap, root, debug_assertions, panicked, last, inserted,
          pc, method, lines, workers, channel, thread_count, received_index,
          print_call>>

\* Longest string the callers pass (words and prefixes).
MaxLen == 2
\* Most distinct words inserted into one trie.
MaxWords == 2

\* The characters of the input: two letters, a capital and a whitespace.
Char == {"a", "b", "A", " "}

\* char's order (Ord for char: the code point), the order of BTreeMap<char, _>.
CodePoint(c) ==
    CASE c = " " -> 32
      [] c = "A" -> 65
      [] c = "a" -> 97
      [] c = "b" -> 98
      [] c = "c" -> 99
      [] c = "d" -> 100
      [] c = "e" -> 101
      [] c = "n" -> 110
      [] c = "o" -> 111
      [] c = "r" -> 114
      [] c = "s" -> 115
      [] c = "t" -> 116

IsWhitespace(c) == c = " "

None == <<>>
Some(x) == <<x>>
Unwrap(o) == o[1]

\* Every string of at most n characters.
RECURSIVE StringsUpTo(_)
StringsUpTo(n) ==
    IF n = 0 THEN {<<>>}
    ELSE LET shorter == StringsUpTo(n - 1)
         IN shorter \cup {Append(s, c) : s \in shorter, c \in Char}

StringsOfChars == StringsUpTo(MaxLen)

\* char::to_lowercase, str::to_lowercase()
to_lowercase_char(c) == IF c = "A" THEN "a" ELSE c

to_lowercase(s) == [i \in 1..Len(s) |-> to_lowercase_char(s[i])]

\* str::trim(): drops the leading and the trailing whitespace.
RECURSIVE trim_start(_)
trim_start(s) ==
    IF s # <<>> /\ IsWhitespace(Head(s)) THEN trim_start(Tail(s)) ELSE s

RECURSIVE trim_end(_)
trim_end(s) ==
    IF s # <<>> /\ IsWhitespace(s[Len(s)])
    THEN trim_end(SubSeq(s, 1, Len(s) - 1))
    ELSE s

trim(s) == trim_end(trim_start(s))

\* The strings the callers pass: at most one word, with whitespace before or
\* after it (LetterTrie::from_file: at most one word per line).
Strings ==
    {s \in StringsOfChars : \A i \in 1..Len(trim(s)) : ~IsWhitespace(trim(s)[i])}

\* The sum and the maximum of a map's values (Iterator::sum, Iterator::max).
RECURSIVE SumOf(_)
SumOf(f) ==
    IF DOMAIN f = {} THEN 0
    ELSE LET k == CHOOSE k \in DOMAIN f : TRUE
         IN f[k] + SumOf([j \in DOMAIN f \ {k} |-> f[j]])

MaxOf(f, default) ==
    IF DOMAIN f = {} THEN default
    ELSE LET k == CHOOSE k \in DOMAIN f : \A j \in DOMAIN f : f[j] <= f[k]
         IN f[k]

\* BTreeMap::keys(): the keys in ascending order.
RECURSIVE SortedKeys(_)
SortedKeys(keys) ==
    IF keys = {} THEN <<>>
    ELSE LET k == CHOOSE k \in keys : \A j \in keys : CodePoint(k) <= CodePoint(j)
         IN <<k>> \o SortedKeys(keys \ {k})

\* BTreeMap::values(): the child links in ascending order of their keys.
Values(children) ==
    LET keys == SortedKeys(DOMAIN children)
    IN [i \in 1..Len(keys) |-> children[keys[i]]]

EmptyMap == [c \in {} |-> 0]

\* BaseLetterTrie::make_child_node_and_link: the Node of a fresh link.
make_child_node_and_link(c, parent, depth, is_word) ==
    [c |-> c, depth |-> depth, parent |-> parent, children |-> EmptyMap,
     is_word |-> is_word, is_frozen |-> FALSE,
     node_count |-> None, word_count |-> None, height |-> None]

\* Rc::new: the address of a fresh allocation.
NewAddress(h) ==
    CHOOSE a \in 1..(Cardinality(DOMAIN h) + 1) :
        /\ a \notin DOMAIN h
        /\ \A b \in 1..(a - 1) : b \in DOMAIN h

\* The nodes some chain of ChildLinks from the holders keeps alive.
RECURSIVE ReachableFrom(_, _)
ReachableFrom(h, seen) ==
    LET more == UNION {{h[n].children[c] : c \in DOMAIN h[n].children} : n \in seen}
    IN IF more \subseteq seen THEN seen ELSE ReachableFrom(h, seen \cup more)

\* Drop: a node no ChildLink holds any more is freed, and with it its children map.
Drop(h, holders) ==
    LET alive == ReachableFrom(h, holders)
    IN [n \in alive |-> h[n]]

\* The live nodes in breadth-first order from r, children in key order.
RECURSIVE AddressOrder(_, _)
AddressOrder(h, queue) ==
    IF queue = <<>>
    THEN <<>>
    ELSE <<Head(queue)>> \o AddressOrder(h, Tail(queue) \o Values(h[Head(queue)].children))

\* The program never compares, orders or prints an address, so a heap is kept
\* up to renaming: its nodes renumbered 1, 2, ... in breadth-first order from
\* the root r. A ParentLink to a node that was freed dangles: it becomes 0,
\* which is never an address.
Renumbered(h, r) ==
    LET order == AddressOrder(h, <<r>>)
        index(a) == IF \E i \in 1..Len(order) : order[i] = a
                    THEN CHOOSE i \in 1..Len(order) : order[i] = a
                    ELSE 0
    IN [i \in 1..Len(order) |->
          LET node == h[order[i]]
          IN [node EXCEPT
                !.parent = IF node.parent = None THEN None ELSE Some(index(Unwrap(node.parent))),
                !.children = [c \in DOMAIN node.children |-> index(node.children[c])]]]

\* Rc::strong_count of the link to node n: the children maps that hold it,
\* and the tries whose root it is.
strong_count(h, roots, n) ==
    Cardinality({<<m, c>> \in UNION {{<<m, c>> : c \in DOMAIN h[m].children} : m \in DOMAIN h} :
                    h[m].children[c] = n})
    + (IF n \in roots THEN 1 ELSE 0)

\* BaseLetterTrie::child_link_has_normal_ref_counts
child_link_has_normal_ref_counts(h, roots, rc) == strong_count(h, roots, rc) = 1

\* Node::is_frozen of the root (BaseLetterTrie::is_frozen).
is_frozen(h, r) == h[r].is_frozen

\* BaseLetterTrie::add_from_vec_chars_one_char: called once for every character
\* of the word; descends into the child for v[char_index], creating it on a miss.
\* A new child is linked into its parent after its own subtree is built.
RECURSIVE add_from_vec_chars_one_char(_, _, _, _, _)
\* A variant that writes the flag of a child it passes through, last
\* character or not.
add_from_vec_chars_one_char_overwriting(h, rc, v, v_len, char_index) ==
    IF char_index < v_len
    THEN LET c == v[char_index + 1]
             is_word == (char_index = v_len - 1)
         IN IF c \in DOMAIN h[rc].children
            THEN LET child_node_link == h[rc].children[c]
                     h1 == [h EXCEPT ![child_node_link].is_word = is_word]
                 IN add_from_vec_chars_one_char(h1, child_node_link, v, v_len, char_index + 1)
            ELSE LET new_child_link == NewAddress(h)
                     h1 == h @@ (new_child_link :>
                               make_child_node_and_link(c, Some(rc), h[rc].depth + 1, is_word))
                     h2 == add_from_vec_chars_one_char(h1, new_child_link, v, v_len, char_index + 1)
                 IN [h2 EXCEPT ![rc].children = (c :> new_child_link) @@ @]
    ELSE h

\* A variant that makes a new child whether or not the character has one.
add_from_vec_chars_one_char_always_new(h, rc, v, v_len, char_index) ==
    IF char_index < v_len
    THEN LET c == v[char_index + 1]
             is_word == (char_index = v_len - 1)
             new_child_link == NewAddress(h)
             h1 == h @@ (new_child_link :>
                       make_child_node_and_link(c, Some(rc), h[rc].depth + 1, is_word))
             h2 == add_from_vec_chars_one_char(h1, new_child_link, v, v_len, char_index + 1)
         IN [h2 EXCEPT ![rc].children = (c :> new_child_link) @@ @]
    ELSE h

\* BaseLetterTrie::add_from_vec_chars_one_char, as the source has it.
add_from_vec_chars_one_char(h, rc, v, v_len, char_index) ==
    IF char_index < v_len
    THEN LET c == v[char_index + 1]
             is_word == (char_index = v_len - 1)
         IN IF c \in DOMAIN h[rc].children
            THEN LET child_node_link == h[rc].children[c]
                     h1 == IF is_word
                           THEN [h EXCEPT ![child_node_link].is_word = TRUE]
                           ELSE h
                 IN add_from_vec_chars_one_char(h1, child_node_link, v, v_len, char_index + 1)
            ELSE LET new_child_link == NewAddress(h)
                     h1 == h @@ (new_child_link :>
                               make_child_node_and_link(c, Some(rc), h[rc].depth + 1, is_word))
                     h2 == add_from_vec_chars_one_char(h1, new_child_link, v, v_len, char_index + 1)
                 IN [h2 EXCEPT ![rc].children = (c :> new_child_link) @@ @]
    ELSE h

\* The outcome of a call that may fail a debug_assert!: the heap it leaves, and
\* whether it panicked.
Outcome(h, p) == [heap |-> h, panicked |-> p]

\* BaseLetterTrie::add_from_vec_chars: called once for every word, on the root.
add_from_vec_chars(h, r, dbg, v, v_len, char_index) ==
    IF dbg /\ is_frozen(h, r)
    THEN Outcome(h, TRUE)
    ELSE IF v_len > 0
         THEN Outcome(add_from_vec_chars_one_char(h, r, v, v_len, char_index), FALSE)
         ELSE Outcome(h, FALSE)

\* A variant that keeps the case of the word.
add_word_cased(h, r, dbg, s) ==
    LET t == trim(s)
    IN IF t # <<>>
       THEN IF dbg /\ is_frozen(h, r)
            THEN Outcome(h, TRUE)
            ELSE add_from_vec_chars(h, r, dbg, t, Len(t), 0)
       ELSE Outcome(h, FALSE)

\* BaseLetterTrie::add_word
add_word(h, r, dbg, s) ==
    LET t == trim(s)
    IN IF t # <<>>
       THEN IF dbg /\ is_frozen(h, r)
            THEN Outcome(h, TRUE)
            ELSE LET v == to_lowercase(t)
                 IN add_from_vec_chars(h, r, dbg, v, Len(v), 0)
       ELSE Outcome(h, FALSE)

\* BaseLetterTrie::new: a root node for the character ' ' at a fresh address.
new(h) ==
    LET r == NewAddress(h)
    IN [heap |-> h @@ (r :> make_child_node_and_link(" ", None, 0, FALSE)), root |-> r]

\* The loop of BaseLetterTrie::merge over other.root's children, in key order:
\* each child link gets the target root as its parent and is inserted into the
\* target root's children under its character, replacing the link that was there.
RECURSIVE merge_loop(_, _, _, _, _, _)
\* A variant that leaves each child's parent link on the root it came from.
merge_loop_parent_kept(h, self_root, other_root, links, i, dbg) ==
    IF i > Len(links)
    THEN Outcome(h, FALSE)
    ELSE LET other_child_node_link == links[i]
             roots == {self_root, other_root}
         IN IF dbg /\ ~child_link_has_normal_ref_counts(h, roots, other_child_node_link)
            THEN Outcome(h, TRUE)
            ELSE LET c == h[other_child_node_link].c
                     h2 == [h EXCEPT ![self_root].children = (c :> other_child_node_link) @@ @]
                     h3 == Drop(h2, roots)
                 IN IF dbg /\ ~child_link_has_normal_ref_counts(h3, roots, other_child_node_link)
                    THEN Outcome(h3, TRUE)
                    ELSE merge_loop(h3, self_root, other_root, links, i + 1, dbg)

\* The loop of BaseLetterTrie::merge, as the source has it.
merge_loop(h, self_root, other_root, links, i, dbg) ==
    IF i > Len(links)
    THEN Outcome(h, FALSE)
    ELSE LET other_child_node_link == links[i]
             roots == {self_root, other_root}
         IN IF dbg /\ ~child_link_has_normal_ref_counts(h, roots, other_child_node_link)
            THEN Outcome(h, TRUE)
            ELSE LET h1 == [h EXCEPT ![other_child_node_link].parent = Some(self_root)]
                     c == h1[other_child_node_link].c
                     h2 == [h1 EXCEPT ![self_root].children = (c :> other_child_node_link) @@ @]
                     h3 == Drop(h2, roots)
                 IN IF dbg /\ ~child_link_has_normal_ref_counts(h1, roots, self_root)
                    THEN Outcome(h1, TRUE)
                    ELSE IF dbg /\ ~child_link_has_normal_ref_counts(h3, roots, other_child_node_link)
                         THEN Outcome(h3, TRUE)
                         ELSE merge_loop(h3, self_root, other_root, links, i + 1, dbg)

\* A variant that puts other's children in the place of the target's.
merge_replacing(h, self_root, other_root, dbg) ==
    LET kids == h[other_root].children
        h1 == [n \in DOMAIN h |->
                 IF n \in {kids[c] : c \in DOMAIN kids}
                 THEN [h[n] EXCEPT !.parent = Some(self_root)]
                 ELSE h[n]]
        h2 == [h1 EXCEPT ![self_root].children = kids]
    IN Outcome(Drop(h2, {self_root}), FALSE)

\* BaseLetterTrie::merge(&self, other): other is dropped when the call ends.
merge(h, self_root, other_root, dbg) ==
    LET r == merge_loop(h, self_root, other_root, Values(h[other_root].children), 1, dbg)
    IN Outcome(Drop(r.heap, {self_root}), r.panicked)

\* Node::node_count
RECURSIVE node_count(_, _)
\* A variant that leaves the node itself out of the live count.
node_count_without_self(h, n) ==
    IF h[n].is_frozen
    THEN Unwrap(h[n].node_count)
    ELSE SumOf([c \in DOMAIN h[n].children |-> node_count(h, h[n].children[c])])

\* Node::node_count, as the source has it.
node_count(h, n) ==
    IF h[n].is_frozen
    THEN Unwrap(h[n].node_count)
    ELSE LET this_count == 1
             child_count == SumOf([c \in DOMAIN h[n].children |->
                                      node_count(h, h[n].children[c])])
         IN this_count + child_count

\* Node::word_count
RECURSIVE word_count(_, _)
word_count(h, n) ==
    IF h[n].is_frozen
    THEN Unwrap(h[n].word_count)
    ELSE LET this_count == IF h[n].is_word THEN 1 ELSE 0
             child_count == SumOf([c \in DOMAIN h[n].children |->
                                      word_count(h, h[n].children[c])])
         IN this_count + child_count

\* Node::height
RECURSIVE height(_, _)
height(h, n) ==
    IF h[n].is_frozen
    THEN Unwrap(h[n].height)
    ELSE LET max_child_height == MaxOf([c \in DOMAIN h[n].children |->
                                           height(h, h[n].children[c])], 0)
         IN max_child_height + 1

\* Node::freeze: freezes the children first, then caches this node's own
\* aggregates from the children's cached ones. A frozen node is left as it is.
RECURSIVE freeze(_, _)
RECURSIVE freeze_children(_, _, _)
freeze_children(h, links, i) ==
    IF i > Len(links) THEN h ELSE freeze_children(freeze(h, links[i]), links, i + 1)

\* A variant that caches the height of the children, not the node's own.
freeze_child_height(h, n) ==
    IF ~h[n].is_frozen
    THEN LET h1 == freeze_children(h, Values(h[n].children), 1)
             kids == h1[n].children
             nodes == 1 + SumOf([c \in DOMAIN kids |-> Unwrap(h1[kids[c]].node_count)])
             words == (IF h1[n].is_word THEN 1 ELSE 0)
                      + SumOf([c \in DOMAIN kids |-> Unwrap(h1[kids[c]].word_count)])
             max_child_height == MaxOf([c \in DOMAIN kids |-> Unwrap(h1[kids[c]].height)], 0)
         IN [h1 EXCEPT ![n].node_count = Some(nodes),
                       ![n].word_count = Some(words),
                       ![n].height = Some(max_child_height),
                       ![n].is_frozen = TRUE]
    ELSE h

\* Node::freeze, as the source has it.
freeze(h, n) ==
    IF ~h[n].is_frozen
    THEN LET h1 == freeze_children(h, Values(h[n].children), 1)
             kids == h1[n].children
             nodes == 1 + SumOf([c \in DOMAIN kids |-> Unwrap(h1[kids[c]].node_count)])
             words == (IF h1[n].is_word THEN 1 ELSE 0)
                      + SumOf([c \in DOMAIN kids |-> Unwrap(h1[kids[c]].word_count)])
             max_child_height == MaxOf([c \in DOMAIN kids |-> Unwrap(h1[kids[c]].height)], 0)
         IN [h1 EXCEPT ![n].node_count = Some(nodes),
                       ![n].word_count = Some(words),
                       ![n].height = Some(max_child_height + 1),
                       ![n].is_frozen = TRUE]
    ELSE h

\* Node::unfreeze: the mirror walk. An unfrozen node is left as it is, and so
\* is everything below it.
RECURSIVE unfreeze(_, _)
RECURSIVE unfreeze_children(_, _, _)
unfreeze_children(h, links, i) ==
    IF i > Len(links) THEN h ELSE unfreeze_children(unfreeze(h, links[i]), links, i + 1)

unfreeze(h, n) ==
    IF h[n].is_frozen
    THEN LET h1 == unfreeze_children(h, Values(h[n].children), 1)
         IN [h1 EXCEPT ![n].node_count = None,
                       ![n].word_count = None,
                       ![n].height = None,
                       ![n].is_frozen = FALSE]
    ELSE h

\* Node::prefix: the characters from below the root down to this node, read
\* off the parent links. A node without a parent, or whose parent is gone
\* (Weak::upgrade fails), has the empty prefix.
RECURSIVE prefix(_, _)
prefix(h, n) ==
    IF h[n].parent # None /\ Unwrap(h[n].parent) \in DOMAIN h
    THEN Append(prefix(h, Unwrap(h[n].parent)), h[n].c)
    ELSE <<>>

\* A variant that counts every node below as a child.
to_fixed_node_counting_below(h, n) ==
    [c |-> h[n].c,
     prefix |-> prefix(h, n),
     depth |-> h[n].depth,
     is_word |-> h[n].is_word,
     child_count |-> node_count(h, n) - 1,
     node_count |-> node_count(h, n),
     word_count |-> word_count(h, n),
     height |-> height(h, n)]

\* Node::to_fixed_node: the FixedNode snapshot of a node.
to_fixed_node(h, n) ==
    [c |-> h[n].c,
     prefix |-> prefix(h, n),
     depth |-> h[n].depth,
     is_word |-> h[n].is_word,
     child_count |-> Cardinality(DOMAIN h[n].children),
     node_count |-> node_count(h, n),
     word_count |-> word_count(h, n),
     height |-> height(h, n)]

\* The node the characters of p lead to from n, if every one has a child.
RECURSIVE Walk(_, _, _)
Walk(h, n, p) ==
    IF p = <<>> THEN Some(n)
    ELSE IF Head(p) \in DOMAIN h[n].children
         THEN Walk(h, h[n].children[Head(p)], Tail(p))
         ELSE None

\* Node::find_child
RECURSIVE find_child(_, _, _, _, _)
find_child(h, n, p, prefix_len, prefix_index) ==
    IF prefix_index >= prefix_len
    THEN None
    ELSE LET c == p[prefix_index + 1]
         IN IF c \in DOMAIN h[n].children
            THEN LET child_node == h[n].children[c]
                 IN IF prefix_index = prefix_len - 1
                    THEN Some(to_fixed_node(h, child_node))
                    ELSE find_child(h, child_node, p, prefix_len, prefix_index + 1)
            ELSE None

\* A variant that trims the prefix as add_word trims a word.
find_trimmed(h, r, s) ==
    LET p == to_lowercase(trim(s))
    IN find_child(h, r, p, Len(p), 0)

\* BaseLetterTrie::find
find(h, r, s) ==
    LET p == to_lowercase(s)
    IN find_child(h, r, p, Len(p), 0)

\* The loop of BaseLetterTrie::find_loop
RECURSIVE find_loop_from(_, _, _, _, _)
find_loop_from(h, rc, p, prefix_len, prefix_index) ==
    IF prefix_index > prefix_len
    THEN None
    ELSE IF prefix_index = prefix_len
         THEN IF h[rc].is_word THEN Some(to_fixed_node(h, rc)) ELSE None
         ELSE LET c == p[prefix_index + 1]
              IN IF c \in DOMAIN h[rc].children
                 THEN find_loop_from(h, h[rc].children[c], p, prefix_len, prefix_index + 1)
                 ELSE None

\* BaseLetterTrie::find_loop
find_loop(h, r, s) ==
    LET p == to_lowercase(s)
    IN find_loop_from(h, r, p, Len(p), 0)

\* Node::is_word_child
RECURSIVE is_word_child(_, _, _, _, _)
is_word_child(h, n, p, prefix_len, prefix_index) ==
    IF prefix_index >= prefix_len
    THEN FALSE
    ELSE LET c == p[prefix_index + 1]
         IN IF c \in DOMAIN h[n].children
            THEN LET child_node == h[n].children[c]
                 IN IF prefix_index = prefix_len - 1
                    THEN h[child_node].is_word
                    ELSE is_word_child(h, child_node, p, prefix_len, prefix_index + 1)
            ELSE FALSE

\* BaseLetterTrie::is_word_recursive
is_word_recursive(h, r, s) ==
    LET p == to_lowercase(s)
    IN is_word_child(h, r, p, Len(p), 0)

\* The loop of BaseLetterTrie::is_word_loop
RECURSIVE is_word_loop_from(_, _, _, _, _)
is_word_loop_from(h, rc, p, prefix_len, prefix_index) ==
    IF prefix_index > prefix_len
    THEN FALSE
    ELSE IF prefix_index = prefix_len
         THEN h[rc].is_word
         ELSE LET c == p[prefix_index + 1]
              IN IF c \in DOMAIN h[rc].children
                 THEN is_word_loop_from(h, h[rc].children[c], p, prefix_len, prefix_index + 1)
                 ELSE FALSE

\* A variant that asks for the path only, not for the flag at its end.
is_word_loop_any_node(h, r, s) ==
    LET p == to_lowercase(s)
    IN Walk(h, r, p) # None

\* BaseLetterTrie::is_word_loop
is_word_loop(h, r, s) ==
    LET p == to_lowercase(s)
    IN is_word_loop_from(h, r, p, Len(p), 0)

\* BaseLetterTrieIteratorBreadthFirst::next, called until it returns None: the
\* snapshots it yields. The queue starts as <<root>> (iter_breadth_first).
RECURSIVE breadth_first(_, _)
breadth_first(h, stack) ==
    IF stack = <<>>
    THEN <<>>
    ELSE LET this_rc == Head(stack)
         IN <<to_fixed_node(h, this_rc)>>
            \o breadth_first(h, Tail(stack) \o Values(h[this_rc].children))

(***************************************************************************)
(* The state machine: one trie, and the calls made on it.                  *)
(***************************************************************************)

\* What the loaders hand to add_from_vec_chars: a line trimmed, non-empty,
\* in lower case (load_continuous, make_vec_char).
LoaderWords == {to_lowercase(trim(s)) : s \in Strings} \ {<<>>}

\* Lexicographic order on strings (Ord for str and for Vec<char>).
RECURSIVE Before(_, _)
Before(s, t) ==
    IF s = <<>> THEN t # <<>>
    ELSE IF t = <<>> THEN FALSE
    ELSE IF Head(s) = Head(t) THEN Before(Tail(s), Tail(t))
    ELSE CodePoint(Head(s)) < CodePoint(Head(t))

\* The word lists a trie that is merged into this one was built from: no
\* word, one word, or two words in order.
OtherWordLists ==
    {<<>>} \cup {<<w>> : w \in LoaderWords}
           \cup {ws \in {<<w1, w2>> : w1, w2 \in LoaderWords} : Before(ws[1], ws[2])}

Range(seq) == {seq[i] : i \in 1..Len(seq)}

\* A call: whether the trie was frozen when it was made, and for an insertion
\* whether its word was in the trie already.
Call(op, was_word) ==
    [op |-> op, was_word |-> was_word, was_frozen |-> is_frozen(heap, root)]

Init ==
    /\ heap = new(EmptyMap).heap
    /\ root = new(EmptyMap).root
    /\ debug_assertions \in BOOLEAN
    /\ panicked = FALSE
    /\ last = Call("new", FALSE)
    /\ inserted = {}
    /\ pc = "idle"
    /\ method = "none"
    /\ lines = <<>>
    /\ workers = <<>>
    /\ channel = <<>>
    /\ thread_count = 0
    /\ received_index = 0
    /\ print_call = [prefix_count |-> 0, printed |-> <<>>, below_zero |-> FALSE]

\* t.add_word(s)
AddWord(s) ==
    LET v == to_lowercase(trim(s))
    IN /\ ~panicked
       /\ Cardinality(inserted \cup ({v} \ {<<>>})) <= MaxWords
       /\ \E r \in {add_word(heap, root, debug_assertions, s)} :
          /\ heap' = Renumbered(r.heap, root)
          /\ panicked' = r.panicked
          /\ last' = Call("add_word", is_word_loop(heap, root, v))
          /\ inserted' = IF r.panicked THEN inserted ELSE inserted \cup ({v} \ {<<>>})
          /\ UNCHANGED <<root, debug_assertions, print_call, loader>>

\* t.add_from_vec_chars(&v, v.len(), 0), as the loaders call it
AddFromVecChars(v) ==
    /\ ~panicked
    /\ Cardinality(inserted \cup {v}) <= MaxWords
    /\ \E r \in {add_from_vec_chars(heap, root, debug_assertions, v, Len(v), 0)} :
       /\ heap' = Renumbered(r.heap, root)
       /\ panicked' = r.panicked
       /\ last' = Call("add_from_vec_chars", is_word_loop(heap, root, v))
       /\ inserted' = IF r.panicked THEN inserted ELSE inserted \cup {v}
       /\ UNCHANGED <<root, debug_assertions, print_call, loader>>

\* A trie built on its own from the words ws, as create_thread_for_part_of_vec
\* builds one; frozen by its owner when fz.
RECURSIVE fill(_, _, _, _, _)
fill(h, r, dbg, ws, i) ==
    IF i > Len(ws)
    THEN h
    ELSE fill(add_from_vec_chars(h, r, dbg, ws[i], Len(ws[i]), 0).heap, r, dbg, ws, i + 1)

build_other(h, dbg, ws, fz) ==
    LET t == new(h)
        filled == fill(t.heap, t.root, dbg, ws, 1)
    IN [heap |-> IF fz THEN freeze(filled, t.root) ELSE filled, root |-> t.root]

\* t.merge(other), other built from ws
Merge(ws, fz) ==
    /\ ~panicked
    /\ Cardinality(inserted \cup Range(ws)) <= MaxWords
    /\ \E other \in {build_other(heap, debug_assertions, ws, fz)} :
       \E r \in {merge(other.heap, root, other.root, debug_assertions)} :
       /\ heap' = Renumbered(r.heap, root)
       /\ panicked' = r.panicked
       /\ last' = Call("merge", FALSE)
       /\ inserted' = IF r.panicked THEN inserted ELSE inserted \cup Range(ws)
       /\ UNCHANGED <<root, debug_assertions, print_call, loader>>

\* t.merge(other) as the parallel loaders call it: other is a sub-trie nobody
\* froze, and none of its first characters is a child of the target's root.
MergePartition(ws) ==
    /\ \A i \in 1..Len(ws) : ws[i][1] \notin DOMAIN heap[root].children
    /\ Merge(ws, FALSE)

\* t.freeze()
Freeze ==
    /\ ~panicked
    /\ heap' = Renumbered(freeze(heap, root), root)
    /\ last' = Call("freeze", FALSE)
    /\ UNCHANGED <<root, debug_assertions, print_call, panicked, inserted, loader>>

\* t.unfreeze()
Unfreeze ==
    /\ ~panicked
    /\ heap' = Renumbered(unfreeze(heap, root), root)
    /\ last' = Call("unfreeze", FALSE)
    /\ UNCHANGED <<root, debug_assertions, print_call, panicked, inserted, loader>>

Next ==
    \/ \E s \in Strings : AddWord(s)
    \/ \E v \in LoaderWords : AddFromVecChars(v)
    \/ \E ws \in OtherWordLists, fz \in BOOLEAN : Merge(ws, fz)
    \/ Freeze
    \/ Unfreeze

\* Every call of the public interface, in any order.
Spec == Init /\ [][Next]_vars

NextLoad ==
    \/ \E s \in Strings : AddWord(s)
    \/ \E v \in LoaderWords : AddFromVecChars(v)
    \/ \E ws \in OtherWordLists : MergePartition(ws)
    \/ Freeze
    \/ Unfreeze

\* A trie filled the way the loaders fill one: by insertions, and by merges of
\* sub-tries over first characters the target does not have yet.
SpecLoad == Init /\ [][NextLoad]_vars

NextBuild ==
    \/ \E v \in LoaderWords : AddFromVecChars(v)
    \/ \E ws \in OtherWordLists, fz \in BOOLEAN : Merge(ws, fz)

\* A trie that is only built: insertions, and merges of any other trie, with
\* no freeze() or unfreeze() of the target.
SpecBuild == Init /\ [][NextBuild]_vars

NextInsert ==
    \/ \E s \in Strings : AddWord(s)
    \/ \E v \in LoaderWords : AddFromVecChars(v)

\* A trie that only takes insertions.
SpecInsert == Init /\ [][NextInsert]_vars

\* The words of the scenario with five words.
SmallWords ==
    {<<"a", "n">>, <<"a", "n", "d">>, <<"a", "n", "t">>,
     <<"c", "r", "o", "s", "s">>, <<"c", "r", "o", "s", "s", "e", "d">>}

\* One turn of the loop of load_read_vec_fill: self.add_word(word).
ReadVecFillWord(s) ==
    LET v == to_lowercase(trim(s))
    IN /\ ~panicked
       /\ \E r \in {add_word(heap, root, debug_assertions, s)} :
          /\ heap' = Renumbered(r.heap, root)
          /\ panicked' = r.panicked
          /\ last' = Call("add_word", is_word_loop(heap, root, v))
          /\ inserted' = IF r.panicked THEN inserted ELSE inserted \cup ({v} \ {<<>>})
          /\ UNCHANGED <<root, debug_assertions, print_call, loader>>

NextSmall ==
    \/ \E s \in SmallWords : ReadVecFillWord(s)
    \/ Freeze
    \/ Unfreeze

\* A trie filled with the five words, in any order and with repetitions.
SpecSmall == Init /\ [][NextSmall]_vars

(***************************************************************************)
(* The parallel loaders: the thread that loads partitions the words by     *)
(* first character, spawns a thread for each part, and merges the tries    *)
(* the threads send back.                                                  *)
(***************************************************************************)

\* Longest file a parallel loader is given, in lines.
MaxLines == 3

\* The lines a file is made of: words, a capital among them, and a blank line.
FileLines == {<<"a">>, <<"A", "b">>, <<"b">>, <<"b", "a">>, <<" ">>}

\* Every file of at most n lines.
RECURSIVE FilesUpTo(_)
FilesUpTo(n) ==
    IF n = 0 THEN {<<>>}
    ELSE FilesUpTo(n - 1)
         \cup {Append(f, l) : f \in {g \in FilesUpTo(n - 1) : Len(g) = n - 1}, l \in FileLines}

Files == FilesUpTo(MaxLines)

\* make_vec_char, and the same steps at the head of
\* load_continuous_parallel_sorted: each line trimmed, the empty ones left
\* out, the others in lower case.
RECURSIVE make_vec_char(_)
make_vec_char(file) ==
    IF file = <<>> THEN <<>>
    ELSE LET line == trim(Head(file))
         IN (IF line # <<>> THEN <<to_lowercase(line)>> ELSE <<>>) \o make_vec_char(Tail(file))

\* A variant that leaves the words in the order of the file.
sort_unstable_by_first_char_skipped(v) == {v}

\* v.sort_unstable_by(|a, b| a[0].cmp(&b[0])): the sort is not stable, so any
\* order of v with the first characters ascending may come out.
sort_unstable_by_first_char(v) ==
    LET n == Len(v)
        orders == {f \in [1..n -> 1..n] :
                      /\ \A i, j \in 1..n : i # j => f[i] # f[j]
                      /\ \A i \in 1..(n - 1) :
                            CodePoint(v[f[i]][1]) <= CodePoint(v[f[i + 1]][1])}
    IN {[i \in 1..n |-> v[f[i]]] : f \in orders}

\* A variant that drops the first word of the part.
create_thread_for_part_of_vec_short(v) ==
    IF Len(v) > 1
    THEN <<[v |-> Tail(v), state |-> "running", holders |-> {"worker"}]>>
    ELSE <<>>

\* BaseLetterTrie::create_thread_for_part_of_vec: the threads it spawns, one
\* if v has words and none if not; the count it returns is their number. The
\* closure owns v and will own the trie it builds.
create_thread_for_part_of_vec(v) ==
    IF v # <<>>
    THEN <<[v |-> v, state |-> "running", holders |-> {"worker"}]>>
    ELSE <<>>

\* A variant that does not empty this_vec when a part ends.
RECURSIVE partition_keeping_this_vec(_, _, _, _, _)
partition_keeping_this_vec(v, i, prev_c, this_vec, spawned) ==
    IF i > Len(v)
    THEN spawned \o create_thread_for_part_of_vec(this_vec)
    ELSE LET vec_char == v[i]
             this_c == vec_char[1]
         IN IF this_c # prev_c
            THEN partition_keeping_this_vec(v, i + 1, this_c, Append(this_vec, vec_char),
                                            spawned \o create_thread_for_part_of_vec(this_vec))
            ELSE partition_keeping_this_vec(v, i + 1, prev_c, Append(this_vec, vec_char),
                                            spawned)

\* The loop of the loaders over the words: a part ends where the first
\* character differs from the one before.
RECURSIVE partition(_, _, _, _, _)
partition(v, i, prev_c, this_vec, spawned) ==
    IF i > Len(v)
    THEN spawned \o create_thread_for_part_of_vec(this_vec)
    ELSE LET vec_char == v[i]
             this_c == vec_char[1]
         IN IF this_c # prev_c
            THEN partition(v, i + 1, this_c, <<vec_char>>,
                           spawned \o create_thread_for_part_of_vec(this_vec))
            ELSE partition(v, i + 1, prev_c, Append(this_vec, vec_char), spawned)

\* A heap at other addresses: every address k higher.
Shifted(h, k) ==
    [a \in {n + k : n \in DOMAIN h} |->
        LET node == h[a - k]
        IN [node EXCEPT
              !.parent = IF node.parent = None THEN None ELSE Some(Unwrap(node.parent) + k),
              !.children = [c \in DOMAIN node.children |-> node.children[c] + k]]]

\* A variant in which the thread merges its trie into the target itself.
spawned_closure_merging(h, self_root, chan, w, i, dbg) ==
    LET t == new(EmptyMap)
        filled == fill(t.heap, t.root, dbg, w.v, 1)
        k == Cardinality(DOMAIN h)
    IN [heap |-> merge(h @@ Shifted(filled, k), self_root, t.root + k, FALSE).heap,
        channel |-> Append(chan, [from |-> i, heap |-> filled, root |-> t.root]),
        worker |-> [w EXCEPT !.state = "sent", !.holders = {}]]

\* A variant in which the thread keeps a reference to the trie it sent.
spawned_closure_keeping(h, self_root, chan, w, i, dbg) ==
    LET t == new(EmptyMap)
        filled == fill(t.heap, t.root, dbg, w.v, 1)
    IN [heap |-> h,
        channel |-> Append(chan, [from |-> i, heap |-> filled, root |-> t.root]),
        worker |-> [w EXCEPT !.state = "sent"]]

\* The closure of create_thread_for_part_of_vec, run by the spawned thread
\* i: a trie of its own filled with the words of v, then moved into the channel.
\* h is the heap of the target trie, which the closure has no reference to.
spawned_closure(h, self_root, chan, w, i, dbg) ==
    LET t == new(EmptyMap)
        filled == fill(t.heap, t.root, dbg, w.v, 1)
    IN [heap |-> h,
        channel |-> Append(chan, [from |-> i, heap |-> filled, root |-> t.root]),
        worker |-> [w EXCEPT !.state = "sent", !.holders = {}]]

\* load_continuous_parallel_sorted and load_parallel_unsorted up to their
\* receive loop, on the trie from_file_test has just made: the words read,
\* sorted by the second loader only, and a thread spawned for every part.
StartLoad(m, file) ==
    /\ ~panicked
    /\ pc = "idle"
    /\ last.op = "new"
    /\ \E v \in {make_vec_char(file)} :
       \E sorted \in (IF m = "unsorted" THEN sort_unstable_by_first_char(v) ELSE {v}) :
       \E spawned \in {partition(sorted, 1, " ", <<>>, <<>>)} :
          /\ lines' = v
          /\ workers' = spawned
          /\ thread_count' = Len(spawned)
    /\ method' = m
    /\ pc' = "receive"
    /\ channel' = <<>>
    /\ received_index' = 0
    /\ UNCHANGED <<heap, root, debug_assertions, print_call, panicked, last, inserted>>

LoadContinuousParallelSorted(file) == StartLoad("sorted", file)

LoadParallelUnsorted(file) == StartLoad("unsorted", file)

\* The spawned thread i runs its closure to the end.
WorkerRun(i) ==
    /\ ~panicked
    /\ pc = "receive"
    /\ workers[i].state = "running"
    /\ \E r \in {spawned_closure(heap, root, channel, workers[i], i, debug_assertions)} :
       /\ heap' = r.heap
       /\ channel' = r.channel
       /\ workers' = [workers EXCEPT ![i] = r.worker]
    /\ UNCHANGED <<root, debug_assertions, print_call, panicked, last, inserted,
                   pc, method, lines, thread_count, received_index>>

\* The spawned thread i panics before it sends: its trie and its Sender are
\* dropped with it. Nobody holds its JoinHandle.
WorkerFail(i) ==
    /\ ~panicked
    /\ pc = "receive"
    /\ workers[i].state = "running"
    /\ workers' = [workers EXCEPT ![i].state = "failed", ![i].holders = {}]
    /\ UNCHANGED <<heap, root, debug_assertions, print_call, panicked, last, inserted,
                   pc, method, lines, channel, thread_count, received_index>>

\* usize::MAX. It is 2^64 - 1 on a 64-bit target; the model checker's integers
\* end at 2^31 - 1, and no count of the model comes near either.
UsizeMax == 2147483647

\* usize subtraction: a panic in a debug build, wrapping in a release build.
usize_sub(a, b, dbg) ==
    IF a >= b THEN Outcome(a - b, FALSE)
    ELSE IF dbg THEN Outcome(0, TRUE)
    ELSE Outcome(UsizeMax - (b - a - 1), FALSE)

\* One turn of `for (received_index, received) in rx.iter().enumerate()`:
\* the next trie is taken from the channel and merged, and the loop ends with
\* the turn in which received_index is thread_count - 1. With nothing in the
\* channel the loop waits: the loader's own Sender keeps the channel open.
Receive ==
    /\ ~panicked
    /\ pc = "receive"
    /\ channel # <<>>
    /\ \E received \in {Head(channel)} :
       \E k \in {Cardinality(DOMAIN heap)} :
       \E r \in {merge(heap @@ Shifted(received.heap, k), root, received.root + k,
                       debug_assertions)} :
       \E last_index \in {usize_sub(thread_count, 1, debug_assertions)} :
          /\ heap' = Renumbered(r.heap, root)
          /\ panicked' = (r.panicked \/ last_index.panicked)
          /\ workers' = [workers EXCEPT ![received.from].state = "received",
                                        ![received.from].holders = @ \cup {"orchestrator"}]
          /\ inserted' = IF r.panicked THEN inserted
                         ELSE inserted \cup Range(workers[received.from].v)
          /\ pc' = IF ~panicked' /\ received_index = last_index.heap THEN "done" ELSE "receive"
          /\ received_index' = IF pc' = "done" \/ panicked' THEN received_index
                               ELSE received_index + 1
    /\ channel' = Tail(channel)
    /\ last' = Call("merge", FALSE)
    /\ UNCHANGED <<root, debug_assertions, print_call, method, lines, thread_count>>

NextParallel ==
    \/ \E file \in Files : LoadContinuousParallelSorted(file)
    \/ \E file \in Files : LoadParallelUnsorted(file)
    \/ \E i \in 1..Len(workers) : WorkerRun(i)
    \/ \E i \in 1..Len(workers) : WorkerFail(i)
    \/ Receive

\* A trie loaded by one of the parallel loaders.
SpecParallel == Init /\ [][NextParallel]_vars

\* The same, with every thread scheduled: a spawned thread that does not
\* panic runs its closure, and the loader takes what is in the channel.
SpecParallelFair ==
    /\ SpecParallel
    /\ \A i \in 1..MaxLines : WF_vars(i \in 1..Len(workers) /\ WorkerRun(i))
    /\ WF_vars(Receive)

(***************************************************************************)
(* print_prefixes.                                                         *)
(***************************************************************************)

\* Largest prefix_count handed to print_prefixes.
MaxPrefixCount == 3

\* What a call of print_prefixes leaves: the value it returns, the lines it
\* printed, whether a subtraction panicked, and whether one went below zero.
Printed(ret, printed, p, below) ==
    [ret |-> ret, printed |-> printed, panicked |-> p, below_zero |-> below]

\* Node::print_prefixes: the loop over the children in the order of their
\* keys. Each usize subtraction panics in a debug build and wraps in a release
\* build when it goes below zero.
RECURSIVE print_prefixes_loop(_, _, _, _, _, _, _, _)
print_prefixes_loop(h, links, i, remaining_prefix_count, prefixes_printed, out, below, dbg) ==
    IF i > Len(links)
    THEN Printed(prefixes_printed, out, FALSE, below)
    ELSE LET child_node == links[i]
             out1 == Append(out, prefix(h, child_node))
             dec == usize_sub(remaining_prefix_count, 1, dbg)
             below1 == below \/ remaining_prefix_count < 1
         IN IF dec.panicked
            THEN Printed(prefixes_printed, out1, TRUE, below1)
            ELSE IF dec.heap > 0
                 THEN LET one == print_prefixes_loop(h, Values(h[child_node].children), 1,
                                                     dec.heap, 0, <<>>, FALSE, dbg)
                          out2 == out1 \o one.printed
                          rest == usize_sub(dec.heap, one.ret, dbg)
                          below2 == below1 \/ one.below_zero \/ dec.heap < one.ret
                      IN IF one.panicked \/ rest.panicked
                         THEN Printed(prefixes_printed, out2, TRUE, below2)
                         ELSE print_prefixes_loop(h, links, i + 1, rest.heap,
                                                  prefixes_printed + one.ret, out2, below2, dbg)
                 ELSE Printed(prefixes_printed, out1, FALSE, below1)

\* Node::print_prefixes
print_prefixes(h, n, prefix_count, dbg) ==
    print_prefixes_loop(h, Values(h[n].children), 1, prefix_count, 0, <<>>, FALSE, dbg)

\* t.print_prefixes(prefix_count)
PrintPrefixes(prefix_count) ==
    /\ ~panicked
    /\ \E r \in {print_prefixes(heap, root, prefix_count, debug_assertions)} :
       /\ print_call' = [prefix_count |-> prefix_count, printed |-> r.printed,
                         below_zero |-> r.below_zero]
       /\ panicked' = r.panicked
    /\ last' = Call("print_prefixes", FALSE)
    /\ UNCHANGED <<heap, root, debug_assertions, inserted, loader>>

NextPrint ==
    \/ \E v \in LoaderWords : AddFromVecChars(v)
    \/ \E prefix_count \in 0..MaxPrefixCount : PrintPrefixes(prefix_count)

\* A trie that is filled and whose prefixes are printed.
SpecPrint == Init /\ [][NextPrint]_vars

(***************************************************************************)
(* Properties.                                                             *)
(***************************************************************************)

Insertions == {"add_word", "add_from_vec_chars"}

IsPrefixOf(p, w) == Len(p) <= Len(w) /\ SubSeq(w, 1, Len(p)) = p

\* The nodes below n, n included.
RECURSIVE Subtree(_, _)
Subtree(h, n) ==
    {n} \cup UNION {Subtree(h, h[n].children[c]) : c \in DOMAIN h[n].children}

\* The longest chain of nodes from n down.
RECURSIVE Levels(_, _)
Levels(h, n) ==
    IF DOMAIN h[n].children = {} THEN 1
    ELSE 1 + MaxOf([c \in DOMAIN h[n].children |-> Levels(h, h[n].children[c])], 0)

\* What a walk over the subtree of n counts now, whatever is cached.
Recomputed(h, n) ==
    <<Cardinality(Subtree(h, n)),
      Cardinality({m \in Subtree(h, n) : h[m].is_word}),
      Levels(h, n)>>

\* node_count(), word_count() and height() of n, as the code answers them.
Aggregates(h, n) == <<node_count(h, n), word_count(h, n), height(h, n)>>

\* The cached fields of n.
CachedAggregates(h, n) == <<h[n].node_count, h[n].word_count, h[n].height>>

AnyFrozen(h) == \E n \in DOMAIN h : h[n].is_frozen

\* C1: in a frozen trie an insertion of a non-empty word is rejected with an
\* error the caller sees, and the trie is left as it was.
C1_FrozenInsertRejected ==
    [][(/\ is_frozen(heap, root)
        /\ \/ \E s \in Strings : trim(s) # <<>> /\ AddWord(s)
           \/ \E v \in LoaderWords : AddFromVecChars(v))
       => (panicked' /\ heap' = heap)]_vars

\* C2: the root's node_count, word_count and height computed live before
\* freeze() are the values cached right after it, and are the live values
\* again when unfreeze() follows.
C2_FreezeUnfreezeEquivalence ==
    [][/\ (last'.op = "freeze" /\ ~last'.was_frozen)
           => /\ is_frozen(heap', root)
              /\ CachedAggregates(heap', root)
                    = <<Some(node_count(heap, root)), Some(word_count(heap, root)),
                        Some(height(heap, root))>>
              /\ Aggregates(heap', root) = Aggregates(heap, root)
       /\ (last.op = "freeze" /\ ~last.was_frozen /\ last'.op = "unfreeze")
           => /\ ~AnyFrozen(heap')
              /\ CachedAggregates(heap', root) = <<None, None, None>>
              /\ Aggregates(heap', root) = Aggregates(heap, root)]_vars

C2_Witness ==
    /\ last.op = "unfreeze"
    /\ last.was_frozen
    /\ ~panicked
    /\ Aggregates(heap, root) = <<3, 2, 3>>

\* C3: every frozen node's cached node_count, word_count and height are what
\* a recomputation over its subtree gives.
C3_CacheNeverStale ==
    ~panicked =>
        \A n \in DOMAIN heap :
            heap[n].is_frozen =>
                CachedAggregates(heap, n)
                    = <<Some(Recomputed(heap, n)[1]), Some(Recomputed(heap, n)[2]),
                        Some(Recomputed(heap, n)[3])>>

\* C4: find(w) of an inserted word w is a snapshot whose prefix is w in lower
\* case and whose is_word is set.
C4_FindInsertedWord ==
    \A p \in Strings :
        to_lowercase(p) \in inserted =>
            /\ find(heap, root, p) # None
            /\ Unwrap(find(heap, root, p)).prefix = to_lowercase(p)
            /\ Unwrap(find(heap, root, p)).is_word

C4_Witness ==
    /\ last.op = "merge"
    /\ <<"a", "b">> \in inserted
    /\ ~panicked
    /\ find(heap, root, <<"A", "b">>) # None
    /\ Unwrap(find(heap, root, <<"A", "b">>)).prefix = <<"a", "b">>

\* C5: is_word_recursive(p) and is_word_loop(p) are true exactly when p in
\* lower case is an inserted word: false for a proper prefix, for an absent
\* path and for the empty string.
C5_IsWordExactlyInserted ==
    ~panicked =>
        \A p \in Strings :
            /\ is_word_recursive(heap, root, p) = (to_lowercase(p) \in inserted)
            /\ is_word_loop(heap, root, p) = (to_lowercase(p) \in inserted)

C5_Witness ==
    /\ ~panicked
    /\ inserted = {<<"a", "b">>}
    /\ ~is_word_recursive(heap, root, <<"a">>)
    /\ ~is_word_loop(heap, root, <<"a">>)
    /\ is_word_loop(heap, root, <<"A", "b">>)

\* C6: find(p) and find_loop(p) return the same result for every p.
C6_FindEqualsFindLoop ==
    ~panicked =>
        \A p \in Strings : find(heap, root, p) = find_loop(heap, root, p)

\* C7: find(p) is the snapshot of the node reached whenever every character
\* of p has a matching child, the root's for the empty p; it is None only
\* when some character has none.
C7_FindFollowsThePath ==
    ~panicked =>
        \A p \in Strings :
            LET reached == Walk(heap, root, to_lowercase(p))
            IN find(heap, root, p) =
                  IF reached = None THEN None
                  ELSE Some(to_fixed_node(heap, Unwrap(reached)))

\* C8: for a non-empty s that leads down no path of the trie (no inserted
\* word starts with it), find(s) is None and is_word(s) is false.
C8_NonMembership ==
    ~panicked =>
        \A s \in Strings :
            (/\ s # <<>>
             /\ \/ Walk(heap, root, to_lowercase(s)) = None
                \/ \A w \in inserted : ~IsPrefixOf(to_lowercase(s), w))
            => /\ find(heap, root, s) = None
               /\ ~is_word_recursive(heap, root, s)
               /\ ~is_word_loop(heap, root, s)

C8_Witness ==
    /\ ~panicked
    /\ inserted = {<<"a">>, <<"a", "b">>}
    /\ find(heap, root, <<"a", "a">>) = None
    /\ find(heap, root, <<"b">>) = None

\* C9: inserting a word that is in the trie already creates no node and
\* changes nothing: the nodes, the flags and the counts stay as they were.
C9_InsertIdempotent ==
    [][(last'.op \in Insertions /\ last'.was_word)
       => (heap' = heap /\ Aggregates(heap', root) = Aggregates(heap, root))]_vars

C9_Witness ==
    /\ last.op \in Insertions
    /\ last.was_word
    /\ ~panicked
    /\ Cardinality(inserted) = 2

\* The words of a set in lexicographic order.
RECURSIVE SortedWords(_)
SortedWords(ws) ==
    IF ws = {} THEN <<>>
    ELSE LET w == CHOOSE w \in ws : \A u \in ws \ {w} : Before(w, u)
         IN <<w>> \o SortedWords(ws \ {w})

\* The trie that inserting the words of ws in lexicographic order builds.
InOrder(ws) ==
    LET t == new(EmptyMap)
    IN Renumbered(fill(t.heap, t.root, FALSE, SortedWords(ws), 1), t.root)

\* A heap without what freeze() adds to it.
Structure(h) ==
    [n \in DOMAIN h |->
        [c |-> h[n].c, depth |-> h[n].depth, parent |-> h[n].parent,
         children |-> h[n].children, is_word |-> h[n].is_word]]

\* C10: the trie does not depend on the order of the insertions: it has the
\* nodes, flags and depths of the trie built from the same words in
\* lexicographic order, and the same breadth-first sequence of snapshots.
C10_OrderIndependent ==
    ~panicked =>
        /\ Structure(heap) = Structure(InOrder(inserted))
        /\ ~AnyFrozen(heap) =>
              breadth_first(heap, <<root>>) = breadth_first(InOrder(inserted), <<1>>)

C10_Witness ==
    /\ ~panicked
    /\ ~AnyFrozen(heap)
    /\ inserted = {<<"a">>, <<"b", "a">>}
    /\ last.op = "add_word"
    /\ ~last.was_word
    /\ Len(breadth_first(heap, <<root>>)) = 4
\* C13: a merge that finds a first-level character of other's root among the
\* target root's children is fatal, and leaves the target's child as it was.
C13_CollisionIsFatal ==
    [][\A ws \in OtherWordLists, fz \in BOOLEAN :
          (/\ \E i \in 1..Len(ws) : ws[i][1] \in DOMAIN heap[root].children
           /\ Merge(ws, fz))
          => (panicked' /\ Structure(heap') = Structure(heap))]_vars

\* The prefixes of the words of W, the empty one left out.
PrefixesOf(W) == UNION {{SubSeq(w, 1, k) : k \in 1..Len(w)} : w \in W}

\* The snapshot of the node for the prefix p in a trie holding the words W.
Expected(W, p) ==
    LET below == {q \in PrefixesOf(W) \cup {p} : IsPrefixOf(p, q)}
        words == {w \in W : IsPrefixOf(p, w)}
        suffixes == {Len(w) - Len(p) : w \in words}
    IN [c |-> IF p = <<>> THEN " " ELSE p[Len(p)],
        prefix |-> p,
        depth |-> Len(p),
        is_word |-> p \in W,
        child_count |-> Cardinality({q \in below : Len(q) = Len(p) + 1}),
        node_count |-> Cardinality(below),
        word_count |-> Cardinality(words),
        height |-> 1 + (IF suffixes = {} THEN 0
                        ELSE CHOOSE m \in suffixes : \A k \in suffixes : k <= m)]

\* C20: in a trie holding the words W with nothing frozen, the snapshot of
\* the node for a prefix p has c the last character of p, depth the length of
\* p, is_word whether p is in W, child_count the characters that extend p in
\* W, node_count the prefixes of words of W that start with p, word_count the
\* words of W that start with p, and height one more than the longest suffix
\* left; the root of an empty trie has node_count 1, word_count 0, height 1.
C20_SnapshotSemantics ==
    (~panicked /\ ~AnyFrozen(heap)) =>
        /\ to_fixed_node(heap, root) = Expected(inserted, <<>>)
        /\ inserted = {} =>
              /\ to_fixed_node(heap, root).node_count = 1
              /\ to_fixed_node(heap, root).word_count = 0
              /\ to_fixed_node(heap, root).height = 1
        /\ \A p \in Strings :
              find(heap, root, p) # None =>
                  Unwrap(find(heap, root, p)) = Expected(inserted, to_lowercase(p))

C20_Witness ==
    /\ ~panicked
    /\ ~AnyFrozen(heap)
    /\ inserted = {<<"a">>, <<"a", "b">>}
    /\ find(heap, root, <<"A">>) =
          Some([c |-> "a", prefix |-> <<"a">>, depth |-> 1, is_word |-> TRUE,
                child_count |-> 1, node_count |-> 2, word_count |-> 2, height |-> 2])
\* C19: after the words an, and, ant, cross, crossed, with nothing frozen:
\* the root has the 2 children a and c; find("an") is a word of depth 2 with
\* node_count 3 and word_count 3 (the nodes n, d, t and the words an, and,
\* ant); find("cro") is not a word; find("crossed") is a word of depth 7.
C19_FiveWords ==
    (inserted = SmallWords /\ ~panicked /\ ~AnyFrozen(heap)) =>
        /\ DOMAIN heap[root].children = {"a", "c"}
        /\ to_fixed_node(heap, root).child_count = 2
        /\ find(heap, root, <<"a", "n">>) # None
        /\ Unwrap(find(heap, root, <<"a", "n">>)).is_word
        /\ Unwrap(find(heap, root, <<"a", "n">>)).depth = 2
        /\ Unwrap(find(heap, root, <<"a", "n">>)).node_count = 3
        /\ Unwrap(find(heap, root, <<"a", "n">>)).word_count = 3
        /\ find(heap, root, <<"c", "r", "o">>) # None
        /\ ~Unwrap(find(heap, root, <<"c", "r", "o">>)).is_word
        /\ find(heap, root, <<"c", "r", "o", "s", "s", "e", "d">>) # None
        /\ Unwrap(find(heap, root, <<"c", "r", "o", "s", "s", "e", "d">>)).is_word
        /\ Unwrap(find(heap, root, <<"c", "r", "o", "s", "s", "e", "d">>)).depth = 7

C19_Witness ==
    /\ inserted = SmallWords
    /\ ~panicked
    /\ ~AnyFrozen(heap)
    /\ last.op = "add_word"
    /\ ~last.was_word
    /\ Cardinality(DOMAIN heap) = 12

\* C19 as the scenario words it: find("an") with node_count 2 and word_count 2.
C19_FiveWordsAsWritten ==
    (inserted = SmallWords /\ ~panicked /\ ~AnyFrozen(heap)) =>
        /\ DOMAIN heap[root].children = {"a", "c"}
        /\ find(heap, root, <<"a", "n">>) # None
        /\ Unwrap(find(heap, root, <<"a", "n">>)).is_word
        /\ Unwrap(find(heap, root, <<"a", "n">>)).depth = 2
        /\ Unwrap(find(heap, root, <<"a", "n">>)).node_count = 2
        /\ Unwrap(find(heap, root, <<"a", "n">>)).word_count = 2
        /\ ~Unwrap(find(heap, root, <<"c", "r", "o">>)).is_word
        /\ Unwrap(find(heap, root, <<"c", "r", "o", "s", "s", "e", "d">>)).is_word
        /\ Unwrap(find(heap, root, <<"c", "r", "o", "s", "s", "e", "d">>)).depth = 7
\* Whether the first characters of the words of v ascend.
SortedByFirstChar(v) ==
    \A i \in 1..(Len(v) - 1) : CodePoint(v[i][1]) <= CodePoint(v[i + 1][1])

\* The trie that inserting the words of v one after the other builds.
Sequential(v) ==
    LET t == new(EmptyMap)
    IN Renumbered(fill(t.heap, t.root, FALSE, v, 1), t.root)

\* C11: when load_continuous_parallel_sorted returns for a list of words
\* sorted by first character, the trie has the node_count, word_count and
\* height of the trie built by inserting the list word after word, and find
\* and is_word answer every word and every absent probe as that trie does.
C11_ParallelSortedEqualsSequential ==
    (pc = "done" /\ method = "sorted" /\ SortedByFirstChar(lines)) =>
        /\ Aggregates(heap, root) = Aggregates(Sequential(lines), 1)
        /\ \A p \in Strings :
              /\ find(heap, root, p) = find(Sequential(lines), 1, p)
              /\ is_word_recursive(heap, root, p) = is_word_recursive(Sequential(lines), 1, p)
              /\ is_word_loop(heap, root, p) = is_word_loop(Sequential(lines), 1, p)

C11_Witness ==
    /\ pc = "done"
    /\ method = "sorted"
    /\ lines = <<<<"a">>, <<"a", "b">>, <<"b">>>>
    /\ thread_count = 2
    /\ received_index = 1
    /\ is_word_loop(heap, root, <<"a", "b">>)

\* C12: load_parallel_unsorted, whatever the order of the list: after the
\* sort no two threads are given words with the same first character, and
\* when the loader returns the trie is the one built by inserting the list
\* word after word.
C12_ParallelUnsortedEqualsSequential ==
    method = "unsorted" =>
        /\ \A i, j \in 1..Len(workers) :
              i # j => workers[i].v[1][1] # workers[j].v[1][1]
        /\ pc = "done" => heap = Sequential(lines)

C12_Witness ==
    /\ pc = "done"
    /\ method = "unsorted"
    /\ lines = <<<<"b">>, <<"a">>, <<"b", "a">>>>
    /\ thread_count = 2
    /\ Aggregates(heap, root) = <<4, 3, 3>>

AnyFailed == \E i \in 1..Len(workers) : workers[i].state = "failed"

\* The loader waits in its receive loop, and nothing is left that could send.
WaitsForever ==
    /\ pc = "receive"
    /\ ~panicked
    /\ channel = <<>>
    /\ \A i \in 1..Len(workers) : workers[i].state # "running"

\* C14: when a spawned thread fails before it sends, the loader neither
\* returns a trie nor is left waiting on a channel nothing will be sent on.
C14_WorkerFailureSurfaces ==
    AnyFailed => (pc # "done" /\ ~WaitsForever)

\* C15: a parallel build in which no thread fails returns, having received
\* and merged one trie for each thread it spawned; with no thread spawned it
\* returns at once.
C15_BuildReturns ==
    /\ [](pc = "done" =>
            /\ \A i \in 1..Len(workers) : workers[i].state = "received"
            /\ Len(workers) = thread_count)
    /\ (pc = "receive") ~> (pc = "done" \/ AnyFailed)

\* C16: the target trie changes only in a turn of the loader's receive loop:
\* a spawned thread leaves it as it is, and no step merges two tries.
C16_OnlyTheLoaderMutatesTheTarget ==
    [][/\ (\E i \in 1..Len(workers) : WorkerRun(i) \/ WorkerFail(i)) => heap' = heap
       /\ heap' # heap => Receive
       /\ Cardinality({i \in 1..Len(workers) :
                          /\ i <= Len(workers')
                          /\ workers[i].state # "received"
                          /\ workers'[i].state = "received"}) <= 1]_vars

C16_Witness ==
    /\ pc = "receive"
    /\ ~panicked
    /\ last.op = "merge"
    /\ Cardinality(DOMAIN heap) > 1
    /\ \E i \in 1..Len(workers) : workers[i].state = "running"

\* C17: a trie a spawned thread builds is held by that thread alone until it
\* is sent, by nobody while it is in the channel, and by the loader alone
\* once received: never by two threads.
C17_SubTrieHasOneHolder ==
    \A i \in 1..Len(workers) :
        /\ Cardinality(workers[i].holders) <= 1
        /\ workers[i].state = "running" => workers[i].holders = {"worker"}
        /\ workers[i].state = "sent" => workers[i].holders = {}
        /\ workers[i].state = "received" => workers[i].holders = {"orchestrator"}

C17_Witness ==
    /\ ~panicked
    /\ \E i, j \in 1..Len(workers) :
          /\ workers[i].state = "received"
          /\ workers[j].state = "sent"
          /\ channel # <<>>

\* The threads whose tries the loader has received.
Received(w) == {i \in 1..Len(w) : w[i].state = "received"}

\* C18: a merge of tries whose first characters differ from each other and
\* from those the target has gives, in whatever order the tries arrive, the
\* trie that inserting all their words builds: the root's children are the
\* first characters and its word_count the number of words.
C18_DisjointMergeAnyOrder ==
    [][(/\ Receive
        /\ ~panicked'
        /\ \A i, j \in Received(workers') :
              i # j => workers[i].v[1][1] # workers[j].v[1][1])
       => /\ Structure(heap') = Structure(InOrder(inserted'))
          /\ DOMAIN heap'[root].children = {w[1] : w \in inserted'}
          /\ word_count(heap', root) = Cardinality(inserted')]_vars

C18_Witness ==
    /\ pc = "done"
    /\ inserted = {<<"a">>, <<"b">>, <<"b", "a">>}
    /\ DOMAIN heap[root].children = {"a", "b"}
    /\ word_count(heap, root) = 3
    /\ received_index = 1

\* No node of the tree under r holds a cached node_count, word_count or height.
NoCache(h, r) ==
    \A n \in Subtree(h, r) : CachedAggregates(h, n) = <<None, None, None>>

\* C21: when unfreeze() returns, no node reachable from the root is marked
\* frozen and none holds a cached node_count, word_count or height, whatever
\* state it was called in.
C21_UnfreezeClearsEveryNode ==
    [][Unfreeze =>
        /\ \A n \in Subtree(heap', root) : ~heap'[n].is_frozen
        /\ NoCache(heap', root)]_vars

\* C22: the frozen flag is uniform over the tree: no node is frozen while one
\* of its descendants is unfrozen, and no node is unfrozen while one of its
\* descendants is frozen.
C22_FrozenFlagUniform ==
    ~panicked =>
        \A n \in Subtree(heap, root) :
            \A m \in Subtree(heap, n) : heap[m].is_frozen = heap[n].is_frozen

\* The snapshots a fresh iter_breadth_first() iterator yields before None.
Yielded == breadth_first(heap, <<root>>)

\* C23: a fresh iter_breadth_first() iterator yields the root first and then
\* every node of the trie exactly once, in non-decreasing depth order, the
\* children of each node in ascending character order; it yields exactly
\* node_count() snapshots before None.
C23_BreadthFirstOrder ==
    ~panicked =>
        /\ Head(Yielded) = to_fixed_node(heap, root)
        /\ Len(Yielded) = Cardinality(Subtree(heap, root))
        /\ {Yielded[i] : i \in 1..Len(Yielded)}
              = {to_fixed_node(heap, n) : n \in Subtree(heap, root)}
        /\ \A i \in 1..(Len(Yielded) - 1) : Yielded[i].depth <= Yielded[i + 1].depth
        /\ \A i, j \in 1..Len(Yielded) :
              (/\ i < j
               /\ Yielded[i].depth = Yielded[j].depth
               /\ Yielded[i].depth > 0
               /\ SubSeq(Yielded[i].prefix, 1, Len(Yielded[i].prefix) - 1)
                     = SubSeq(Yielded[j].prefix, 1, Len(Yielded[j].prefix) - 1))
                  => CodePoint(Yielded[i].c) < CodePoint(Yielded[j].c)
        /\ Len(Yielded) = node_count(heap, root)

\* C24: the root has no parent, and every other node of the trie has a parent
\* reference that resolves to the node whose children map holds it, under the
\* node's own character; so a first-level child moved by merge refers to the
\* target's root.
C24_ParentOwnsChild ==
    ~panicked =>
        /\ heap[root].parent = None
        /\ \A n \in Subtree(heap, root) :
              \A c \in DOMAIN heap[n].children :
                  /\ heap[heap[n].children[c]].parent = Some(n)
                  /\ heap[heap[n].children[c]].c = c

\* A merge moved the first-level child b, with a child of its own, next to a
\* first-level child made by an insertion.
C24_Witness ==
    /\ ~panicked
    /\ last.op = "merge"
    /\ inserted = {<<"a">>, <<"b", "a">>}
    /\ heap[heap[root].children["b"]].parent = Some(root)
    /\ prefix(heap, Unwrap(Walk(heap, root, <<"b", "a">>))) = <<"b", "a">>

\* The character paths from n down to a node, the empty path to n included.
RECURSIVE Paths(_, _)
Paths(h, n) ==
    {<<>>} \cup UNION {{<<c>> \o q : q \in Paths(h, h[n].children[c])} :
                         c \in DOMAIN h[n].children}

\* C25: after any sequence of insertions the character paths from the root to
\* a node are exactly the non-empty prefixes of the inserted words: one node
\* for each such prefix, every child held under its own character, and no
\* node that is not a prefix of an inserted word.
C25_OneNodePerPrefix ==
    ~panicked =>
        /\ Paths(heap, root) \ {<<>>} = PrefixesOf(inserted)
        /\ Cardinality(Subtree(heap, root)) = 1 + Cardinality(PrefixesOf(inserted))
        /\ \A n \in Subtree(heap, root) :
              \A c \in DOMAIN heap[n].children : heap[heap[n].children[c]].c = c

\* The second word was inserted over the path of the first: a and ab share
\* the node for a.
C25_Witness ==
    /\ ~panicked
    /\ last.op \in Insertions
    /\ inserted = {<<"a">>, <<"a", "b">>}
    /\ Cardinality(Subtree(heap, root)) = 3

(***************************************************************************)
(* NoParentLetterTrie: a node owns its children by value and has no link   *)
(* to its parent. A trie is the value of its root node.                    *)
(***************************************************************************)

\* NoParentLetterTrie::make_node
NoParent_make_node(c, depth, is_word) ==
    [c |-> c, depth |-> depth, children |-> EmptyMap, is_word |-> is_word]

\* NoParentLetterTrie::new
NoParent_new == NoParent_make_node(" ", 0, FALSE)

\* NoParentLetterTrie::add_from_vec_chars_one_node
RECURSIVE NoParent_add_from_vec_chars_one_node(_, _, _, _)
NoParent_add_from_vec_chars_one_node(self, v, v_len, char_index) ==
    IF char_index < v_len
    THEN LET c == v[char_index + 1]
             is_word == (char_index = v_len - 1)
         IN IF c \in DOMAIN self.children
            THEN LET child_node == IF is_word
                                   THEN [self.children[c] EXCEPT !.is_word = TRUE]
                                   ELSE self.children[c]
                     child_after == NoParent_add_from_vec_chars_one_node(
                                        child_node, v, v_len, char_index + 1)
                 IN [self EXCEPT !.children = (c :> child_after) @@ @]
            ELSE LET new_child_node == NoParent_add_from_vec_chars_one_node(
                                           NoParent_make_node(c, self.depth + 1, is_word),
                                           v, v_len, char_index + 1)
                 IN [self EXCEPT !.children = (c :> new_child_node) @@ @]
    ELSE self

\* NoParentLetterTrie::add_from_vec_chars
NoParent_add_from_vec_chars(self, v, v_len, char_index) ==
    IF v_len > 0
    THEN NoParent_add_from_vec_chars_one_node(self, v, v_len, char_index)
    ELSE self

\* NoParentLetterTrie::node_count
RECURSIVE NoParent_node_count(_)
NoParent_node_count(self) ==
    1 + SumOf([c \in DOMAIN self.children |-> NoParent_node_count(self.children[c])])

\* NoParentLetterTrie::word_count
RECURSIVE NoParent_word_count(_)
NoParent_word_count(self) ==
    (IF self.is_word THEN 1 ELSE 0)
    + SumOf([c \in DOMAIN self.children |-> NoParent_word_count(self.children[c])])

\* NoParentLetterTrie::height
RECURSIVE NoParent_height(_)
NoParent_height(self) ==
    MaxOf([c \in DOMAIN self.children |-> NoParent_height(self.children[c])], 0) + 1

\* NoParentLetterTrie::to_fixed_node
NoParent_to_fixed_node(self) ==
    [c |-> self.c,
     prefix |-> <<>>,
     depth |-> self.depth,
     is_word |-> self.is_word,
     child_count |-> Cardinality(DOMAIN self.children),
     node_count |-> NoParent_node_count(self),
     word_count |-> NoParent_word_count(self),
     height |-> NoParent_height(self)]

\* NoParentLetterTrie::find_child
RECURSIVE NoParent_find_child(_, _, _, _)
NoParent_find_child(self, p, prefix_len, prefix_index) ==
    IF prefix_index >= prefix_len
    THEN None
    ELSE LET c == p[prefix_index + 1]
         IN IF c \in DOMAIN self.children
            THEN LET child_node == self.children[c]
                 IN IF prefix_index = prefix_len - 1
                    THEN Some(NoParent_to_fixed_node(child_node))
                    ELSE NoParent_find_child(child_node, p, prefix_len, prefix_index + 1)
            ELSE None

\* NoParentLetterTrie::find
NoParent_find(self, s) ==
    LET p == to_lowercase(s)
    IN NoParent_find_child(self, p, Len(p), 0)

\* load_continuous of NoParentLetterTrie: the words of ws added one by one.
RECURSIVE NoParent_fill(_, _, _)
NoParent_fill(self, ws, i) ==
    IF i > Len(ws)
    THEN self
    ELSE NoParent_fill(NoParent_add_from_vec_chars(self, ws[i], Len(ws[i]), 0), ws, i + 1)

\* The word lists that hold the words of W, each once, in any order.
WordLists(W) == {ws \in [1..Cardinality(W) -> W] : Range(ws) = W}

\* C26: a BaseLetterTrie and a NoParentLetterTrie built from the same words
\* return equal FixedNode values from to_fixed_node() and from find(p) for
\* every prefix p, in every field: c, prefix, depth, is_word, child_count,
\* node_count, word_count, height.
C26_SameSnapshots ==
    ~panicked =>
        \A ws \in WordLists(inserted) :
            LET no_parent == NoParent_fill(NoParent_new, ws, 1)
            IN /\ NoParent_to_fixed_node(no_parent) = to_fixed_node(heap, root)
               /\ \A p \in Strings : NoParent_find(no_parent, p) = find(heap, root, p)

\* C27: nodes are never deleted: once find(p) returns Some for a prefix p it
\* returns Some after every later call, and once is_word(w) is true it stays
\* true.
C27_NothingIsDeleted ==
    [][~panicked' =>
        \A p \in Strings :
            /\ find(heap, root, p) # None => find(heap', root, p) # None
            /\ is_word_recursive(heap, root, p) => is_word_recursive(heap', root, p)
            /\ is_word_loop(heap, root, p) => is_word_loop(heap', root, p)]_vars

\* The words handed to the spawned threads, in the order of the threads.
RECURSIVE Handed(_, _)
Handed(ws, i) ==
    IF i > Len(ws) THEN <<>> ELSE ws[i].v \o Handed(ws, i + 1)

\* C28: the partitioning loop spawns one thread for every maximal run of
\* consecutive words with the same first character: every thread has a part
\* with at least one word, all of one first character, which the part of the
\* next thread does not start with; the parts put end to end are the words
\* the loop went over, so every word is in the part of exactly one thread;
\* and thread_count is the number of threads spawned.
C28_OneWorkerPerRun ==
    pc # "idle" =>
        /\ \A i \in 1..Len(workers) :
              /\ workers[i].v # <<>>
              /\ \A j \in 1..Len(workers[i].v) : workers[i].v[j][1] = workers[i].v[1][1]
        /\ \A i \in 1..(Len(workers) - 1) : workers[i].v[1][1] # workers[i + 1].v[1][1]
        /\ method = "sorted" => Handed(workers, 1) = lines
        /\ method = "unsorted" => Handed(workers, 1) \in sort_unstable_by_first_char(lines)
        /\ thread_count = Len(workers)

\* Three words in two runs: a and ab for one thread, b for the next.
C28_Witness ==
    /\ pc = "receive"
    /\ method = "sorted"
    /\ Len(workers) = 2
    /\ workers[1].v = <<<<"a">>, <<"a", "b">>>>
    /\ workers[2].v = <<<<"b">>>>
    /\ thread_count = 2

\* C29: in merge, the reference-count assertion that closes every turn of the
\* loop holds: right after a child of the other trie is put into the children
\* map of the target's root, its link has a strong count of exactly 1. So no
\* call of merge ends in the panic of a failed assertion.
C29_MergedChildHasOneHolder ==
    [][(\E ws \in OtherWordLists, fz \in BOOLEAN : Merge(ws, fz)) => ~panicked']_vars

\* C30: print_prefixes(prefix_count) prints at most prefix_count prefixes, and
\* its counter remaining_prefix_count is never decremented below zero.
C30_PrintsAtMostPrefixCount ==
    last.op = "print_prefixes" =>
        /\ Len(print_call.printed) <= print_call.prefix_count
        /\ ~print_call.below_zero

====
